---- MODULE Spec2Model ----
(***************************************************************************)
(* Model of pyfda's fixpoint library (pyfda/libs/pyfda_fix_lib.py) and of  *)
(* the direct-form-1 IIR fixpoint filter built on it                       *)
(* (pyfda/fixpoint_widgets/iir_df1/iir_df1_pyfixp.py).                     *)
(*                                                                         *)
(* Numbers.  Every real value of the program is a dyadic rational here; a  *)
(* value v is held as the integer v * D with D = 2^FracBits.  All the      *)
(* arithmetic the code does on such values (scaling by powers of two,      *)
(* floor / round / fix / ceil, compare, add) is exact in float64 for the   *)
(* magnitudes of the model, so the integer arithmetic below computes what  *)
(* the code computes.                                                      *)
(*                                                                         *)
(* Strings are sequences of one-character strings.                         *)
(***************************************************************************)
EXTENDS Integers, Sequences, FiniteSets, TLC

\* ------------------------------------------------------------------------
\* Bounds of the model
\* ------------------------------------------------------------------------
MaxWI == 1          \* word lengths WI drawn from 0..MaxWI
MaxWF == 2          \* word lengths WF drawn from 0..MaxWF
InMax == 4          \* inputs of fixp range over [-InMax, InMax]

\* resolution of the model's numbers: enough for an input with MaxWF+1
\* fractional bits to be scaled down once more by 2^MaxWF
FracBits == 2 * MaxWF + 2

RECURSIVE Pow2(_)
Pow2(n) == IF n <= 0 THEN 1 ELSE 2 * Pow2(n - 1)

D == Pow2(FracBits)                 \* the integer that stands for 1.0
InStep == D \div Pow2(MaxWF + 1)    \* inputs are multiples of 2^-(MaxWF+1)
InputVals == { i * InStep : i \in (-(InMax * Pow2(MaxWF + 1)))..(InMax * Pow2(MaxWF + 1)) }

Abs(n) == IF n < 0 THEN -n ELSE n
Sign(n) == IF n > 0 THEN 1 ELSE IF n < 0 THEN -1 ELSE 0

\* ------------------------------------------------------------------------
\* numpy's rounding functions on the ratio a / b (b > 0), integer result
\* ------------------------------------------------------------------------
np_floor(a, b) == a \div b
np_ceil(a, b) == -((-a) \div b)
np_fix(a, b) == IF a >= 0 THEN a \div b ELSE -((-a) \div b)
\* np.round and np.rint with decimals = 0 round half to even
np_rint(a, b) ==
    LET q == a \div b
        r == a % b
    IN  IF 2 * r < b THEN q
        ELSE IF 2 * r > b THEN q + 1
        ELSE IF q % 2 = 0 THEN q ELSE q + 1

\* ------------------------------------------------------------------------
\* class Fixed
\* ------------------------------------------------------------------------
QuantModes == {"floor", "round", "fix", "ceil", "rint", "none"}
OvflModes == {"sat", "wrap", "none"}
NumFormats == {"qfrac", "qint"}
Scalings == {"mult", "div", "multdiv", "unscaled"}

\* the valid keys and default values of Fixed.__init__
q_dict_default ==
    [wdg_name |-> "unknown", WI |-> 0, WF |-> 15, w_a_m |-> "m",
     quant |-> "round", ovfl |-> "sat", N_over |-> 0]

\* LSB and MSB as set_qdict computes them from the word lengths
LSB_of(WI, WF, qfrmt) == IF qfrmt = "qint" THEN D ELSE D \div Pow2(WF)
\* 2 ** (WI - 1) resp. 2 ** (WI + WF - 1); the exponent -1 gives 0.5
MSB_of(WI, WF, qfrmt) ==
    LET e == IF qfrmt = "qint" THEN WI + WF - 1 ELSE WI - 1
    IN  IF e >= 0 THEN D * Pow2(e) ELSE D \div Pow2(-e)

\* dict.update: the keys of d replace those of qd
dict_update(qd, d) ==
    [k \in DOMAIN qd \cup DOMAIN d |-> IF k \in DOMAIN d THEN d[k] ELSE qd[k]]

\* Fixed.set_qdict: merge d, sanitize WI and WF, recompute LSB, MSB, MAX, MIN
set_qdict(q, d, qfrmt) ==
    LET m  == dict_update(q.q_dict, d)
        qd == [m EXCEPT !.WI = m.WI, !.WF = Abs(m.WF)]
        lsb == LSB_of(qd.WI, qd.WF, qfrmt)
        msb == MSB_of(qd.WI, qd.WF, qfrmt)
    IN  [q EXCEPT !.q_dict = qd, !.LSB = lsb, !.MSB = msb,
                  !.MAX = 2 * msb - lsb, !.MIN = -2 * msb]

\* Fixed.resetN
resetN(q) ==
    [q EXCEPT !.q_dict = [q.q_dict EXCEPT !.N_over = 0],
              !.N_over_pos = 0, !.N_over_neg = 0, !.N_over = 0, !.N = 0]

\* Fixed.__init__: missing keys from the defaults, set_qdict({}), resetN().
\* The attributes __init__ presets (LSB, MSB, MAX, MIN from the default
\* dict) are overwritten by set_qdict before anything reads them.
Fixed(d, qfrmt) ==
    LET raw == [q_dict |-> dict_update(q_dict_default, d),
                LSB |-> 0, MSB |-> 0, MAX |-> 0, MIN |-> 0,
                N |-> 0, N_over_pos |-> 0, N_over_neg |-> 0, N_over |-> 0]
    IN  resetN(set_qdict(raw, << >>, qfrmt))

\* fixp, step (3): y *= 2**WF, apply the quantization method, yq /= 2**WF
requant(quant, y, WF) ==
    LET ys == y * Pow2(WF)
        k  == CASE quant = "floor" -> np_floor(ys, D)
                [] quant = "round" -> np_rint(ys, D)
                [] quant = "fix"   -> np_fix(ys, D)
                [] quant = "ceil"  -> np_ceil(ys, D)
                [] quant = "rint"  -> np_rint(ys, D)
                [] OTHER           -> 0
    IN  IF quant = "none" THEN ys \div Pow2(WF) ELSE (k * D) \div Pow2(WF)

\* mutant of over_pos: flags the largest representable value as an overflow
over_pos_ge(q, yq) == yq >= q.MAX

\* fixp, step (4): the overflow flags of one element
over_neg(q, yq) == yq < q.MIN
over_pos(q, yq) == yq > q.MAX

\* mutant of saturate: clamps a positive overflow to 2 * MSB, one LSB too high
saturate_no_lsb(q, yq) ==
    LET a == IF yq > q.MAX THEN 2 * q.MSB ELSE yq
    IN  IF yq < q.MIN THEN q.MIN ELSE a

\* fixp, step (4), 'sat': np.where(over_pos, MAX, yq), then np.where(over_neg, MIN, yq)
saturate(q, yq) ==
    LET a == IF over_pos(q, yq) THEN q.MAX ELSE yq
    IN  IF over_neg(q, yq) THEN q.MIN ELSE a

\* fixp, step (4), 'wrap':
\* yq - 4 * MSB * np.fix((np.sign(yq) * 2 * MSB + yq) / (4 * MSB)) where an overflow is flagged
wrap(q, yq) ==
    IF over_pos(q, yq) \/ over_neg(q, yq)
    THEN yq - 4 * q.MSB * np_fix(Sign(yq) * 2 * q.MSB + yq, 4 * q.MSB)
    ELSE yq

\* the scale factor fixp derives from the number format at every call
scale_of(q, qfrmt) == IF qfrmt = "qint" THEN Pow2(q.q_dict.WF) ELSE 1

\* Fixed.fixp on numeric input y (a sequence: one element for a scalar, the
\* flattened elements for an array).  Result: the object after the call, the
\* returned values, and whether the call raised (then nothing is returned).
fixp(q, y, scaling, qfrmt) ==
    LET qd    == q.q_dict
        scale == scale_of(q, qfrmt)
        idx   == 1..Len(y)
        qN    == [q EXCEPT !.N = q.N + Len(y)]
        y2    == [i \in idx |-> IF scaling \in {"mult", "multdiv"} THEN y[i] * scale ELSE y[i]]
        yq    == [i \in idx |-> requant(qd.quant, y2[i], qd.WF)]
        n_neg == q.N_over_neg + Cardinality({i \in idx : over_neg(q, yq[i])})
        n_pos == q.N_over_pos + Cardinality({i \in idx : over_pos(q, yq[i])})
        qC    == IF qd.ovfl = "none"
                 THEN [qN EXCEPT !.N_over_neg = 0, !.N_over_pos = 0, !.N_over = 0]
                 ELSE [qN EXCEPT !.N_over_neg = n_neg, !.N_over_pos = n_pos,
                                 !.N_over = n_neg + n_pos]
        yo    == [i \in idx |-> CASE qd.ovfl = "sat"  -> saturate(q, yq[i])
                                  [] qd.ovfl = "wrap" -> wrap(q, yq[i])
                                  [] OTHER            -> yq[i]]
        qU    == [qC EXCEPT !.q_dict = [qd EXCEPT !.N_over = qC.N_over]]
        ret   == [i \in idx |-> IF scaling \in {"div", "multdiv"} THEN yo[i] \div scale ELSE yo[i]]
    IN  IF qd.quant \notin QuantModes
        THEN [q |-> qN, yq |-> << >>, exc |-> TRUE]      \* raise Exception('Unknown Requantization type')
        ELSE IF qd.ovfl \notin OvflModes
        THEN [q |-> qC, yq |-> << >>, exc |-> TRUE]      \* raise Exception('Unknown overflow type')
        ELSE [q |-> qU, yq |-> ret, exc |-> FALSE]

\* ------------------------------------------------------------------------
\* Strings are sequences of one-character strings
\* ------------------------------------------------------------------------
RECURSIVE Pow(_, _)
Pow(b, n) == IF n <= 0 THEN 1 ELSE b * Pow(b, n - 1)

\* the values of bin2hex's wmap, in the order of the nibbles' values
HexDigits == <<"0", "1", "2", "3", "4", "5", "6", "7", "8", "9", "A", "B", "C", "D", "E", "F">>
HexLower == <<"a", "b", "c", "d", "e", "f">>

\* the value of a digit as Python's int(s, base) reads it, -1 for any other character
DigitVal(c) ==
    IF \E i \in 1..16 : HexDigits[i] = c THEN (CHOOSE i \in 1..16 : HexDigits[i] = c) - 1
    ELSE IF \E i \in 1..6 : HexLower[i] = c THEN (CHOOSE i \in 1..6 : HexLower[i] = c) + 9
    ELSE -1

RECURSIVE py_int_acc(_, _, _)
py_int_acc(s, base, acc) ==
    IF s = << >> THEN acc
    ELSE IF DigitVal(Head(s)) \notin 0..(base - 1) THEN -1
    ELSE py_int_acc(Tail(s), base, acc * base + DigitVal(Head(s)))

\* int(s, base) for a string without sign; -1 stands for ValueError
py_int(s, base) == IF s = << >> THEN -1 ELSE py_int_acc(s, base, 0)

RECURSIVE bin_digits(_)
\* bin(n)[2:] for n >= 0
bin_digits(n) == IF n < 2 THEN <<HexDigits[n + 1]>> ELSE bin_digits(n \div 2) \o <<HexDigits[(n % 2) + 1]>>

\* int(np.floor(np.log2(v))) + 1 for an integer v >= 1, 0 for v = 0
BitLen(n) == IF n = 0 THEN 0 ELSE Len(bin_digits(n))

Rep(c, n) == [i \in 1..n |-> c]

\* np.binary_repr(num, width); width 0 stands for width=None with num >= 0
binary_repr(num, width) ==
    IF num = 0 THEN Rep("0", IF width = 0 THEN 1 ELSE width)
    ELSE IF num > 0
    THEN Rep("0", width - Len(bin_digits(num))) \o bin_digits(num)
    ELSE LET pw0 == Len(bin_digits(-num))
             pw  == IF Pow2(pw0 - 1) = -num THEN pw0 - 1 ELSE pw0
             b   == bin_digits(Pow2(pw + 1) + num)
         IN  Rep("1", width - Len(b)) \o b

RECURSIVE lstrip(_, _)
\* s.lstrip(c)
lstrip(s, c) == IF s # << >> /\ Head(s) = c THEN lstrip(Tail(s), c) ELSE s

\* one hex digit for every chunk of four binary digits
nibbles(b) ==
    [i \in 1..(Len(b) \div 4) |-> HexDigits[py_int(SubSeq(b, 4 * i - 3, 4 * i), 2) + 1]]

\* mutant of bin2hex: the fractional bits are padded on the left
bin2hex_padleft(bin_str, WI) ==
    LET n     == Len(bin_str)
        bin_i == SubSeq(bin_str, 1, IF WI + 1 < n THEN WI + 1 ELSE n)
        bin_f == SubSeq(bin_str, WI + 2, n)
    IN  (IF WI > 0 THEN nibbles(Rep("0", (-Len(bin_i)) % 4) \o bin_i) ELSE <<bin_str[1]>>)
        \o (IF n - WI - 1 > 0 THEN <<".">> \o nibbles(Rep("0", (-Len(bin_f)) % 4) \o bin_f)
            ELSE << >>)

\* bin2hex(bin_str, WI)
bin2hex(bin_str, WI) ==
    LET n     == Len(bin_str)
        bin_i == SubSeq(bin_str, 1, IF WI + 1 < n THEN WI + 1 ELSE n)
        bin_f == SubSeq(bin_str, WI + 2, n)
    IN  (IF WI > 0 THEN nibbles(Rep("0", (-Len(bin_i)) % 4) \o bin_i) ELSE <<bin_str[1]>>)
        \o (IF n - WI - 1 > 0 THEN <<".">> \o nibbles(bin_f \o Rep("0", (-Len(bin_f)) % 4))
            ELSE << >>)

\* mutant of insert_binary_point: the point is set one place too far left
insert_binary_point_before(bin_str, pos) ==
    SubSeq(bin_str, 1, pos) \o <<".">> \o SubSeq(bin_str, pos + 1, Len(bin_str))

\* float2frmt, insert_binary_point: bin_str[:pos+1] + "." + bin_str[pos+1:]
insert_binary_point(bin_str, pos) ==
    SubSeq(bin_str, 1, pos + 1) \o <<".">> \o SubSeq(bin_str, pos + 2, Len(bin_str))

\* ------------------------------------------------------------------------
\* dec2csd and csd2dec
\* ------------------------------------------------------------------------
\* pow(2.0, k)
pow2f(k) == IF k >= 0 THEN D * Pow2(k) ELSE D \div Pow2(-k)

RECURSIVE csd_exp(_, _)
\* int(np.ceil(np.log2(np.abs(dec_val) * 1.5))): the least k >= k0 with
\* 2^k >= 1.5 * |dec_val|
csd_exp(dec_val, k0) ==
    IF 2 * pow2f(k0) >= 3 * Abs(dec_val) THEN k0 ELSE csd_exp(dec_val, k0 + 1)

\* dec2csd, lines 180-193: what is appended at k = -1 before the digit; with
\* no digit yet, dec_val is compared with the limit of this k
csd_point(k, dec_val, digits) ==
    IF k # -1 THEN << >>
    ELSE IF digits # << >> THEN <<".">>
    ELSE IF 3 * dec_val > pow2f(k + 1) THEN <<"+", ".">>
    ELSE IF 3 * dec_val < -pow2f(k + 1) THEN <<"-", ".">>
    ELSE <<"0", ".">>

\* dec2csd, lines 196-212: the digit for exponent k
csd_digit(k, remainder, prev_non_zero) ==
    IF prev_non_zero THEN "0"
    ELSE IF 3 * remainder > pow2f(k + 1) THEN "+"
    ELSE IF 3 * remainder < -pow2f(k + 1) THEN "-"
    ELSE "0"

\* the change of the remainder that goes with a digit of weight w
csd_sub(c, w) == IF c = "+" THEN -w ELSE IF c = "-" THEN w ELSE 0

RECURSIVE csd_loop(_, _, _, _, _, _)
\* dec2csd, the loop 'while(k >= -WF)' from k on
csd_loop(k, WF, dec_val, remainder, prev_non_zero, digits) ==
    IF k < -WF THEN digits
    ELSE
      LET pt   == csd_point(k, dec_val, digits)
          lead == Len(pt) = 2 /\ pt[1] # "0"
          rem1 == IF Len(pt) = 2 THEN remainder + csd_sub(pt[1], D) ELSE remainder
          c    == csd_digit(k, rem1, prev_non_zero \/ lead)
      IN  csd_loop(k - 1, WF, dec_val, rem1 + csd_sub(c, pow2f(k)), c # "0", digits \o pt \o <<c>>)

\* dec2csd(dec_val, WF)
dec2csd(dec_val, WF) ==
    IF dec_val = 0 THEN <<"0">>
    ELSE csd_loop((IF Abs(dec_val) < D THEN 0 ELSE csd_exp(dec_val, 0)) - 1, WF,
                  dec_val, dec_val, FALSE, << >>)

RECURSIVE csd2dec(_)
\* csd2dec(csd_str): the integer the string stands for
csd2dec(csd_str) ==
    IF csd_str = << >> THEN 0
    ELSE -csd_sub(Head(csd_str), Pow2(Len(csd_str) - 1)) + csd2dec(Tail(csd_str))

\* ------------------------------------------------------------------------
\* Fixed.float2frmt for fx_base 'bin', 'hex' and 'csd'
\* ------------------------------------------------------------------------
\* lines 1060-1075: the string for the quantized value y_fix
f2s_str(q, y_fix, fmt, base) ==
    LET W       == q.q_dict.WI + q.q_dict.WF + 1
        WI      == IF fmt = "qint" THEN W ELSE q.q_dict.WI
        bin_str == binary_repr(np_rint(y_fix, q.LSB), W)
    IN  IF base = "csd" THEN dec2csd(y_fix, IF fmt = "qint" THEN 0 ELSE q.q_dict.WF)
        ELSE IF base = "hex" THEN bin2hex(bin_str, WI)
        ELSE IF fmt = "qint" THEN bin_str
        ELSE insert_binary_point(bin_str, WI)

f2s_result(r, fmt, base) ==
    [q |-> r.q, str |-> IF r.exc THEN << >> ELSE f2s_str(r.q, r.yq[1], fmt, base), exc |-> r.exc]

\* float2frmt(y) for a scalar y: the object after the call, the string returned
float2frmt(q, y, fmt, base) == f2s_result(fixp(q, <<y>>, "mult", fmt), fmt, base)

\* ------------------------------------------------------------------------
\* Fixed.frmt2float and frmt2float_scalar for fx_base 'bin', 'hex' and 'csd'
\* ------------------------------------------------------------------------
\* FRMT_REGEX: the characters re.sub leaves in the string
FRMT_KEEP ==
    [bin |-> {"0", "1", "|", ".", ",", "-"},
     csd |-> {"0", "|", "+", "-", ".", ","},
     hex |-> {HexDigits[i] : i \in 1..16} \cup {HexLower[i] : i \in 1..6} \cup {"|", ".", ",", "-"}]

\* lines 883-887: illegal characters and leading zeros removed, ',' -> '.',
\* '0' prepended to a leading '.'
val_str_of(s, base) ==
    LET v == lstrip(SelectSeq(s, LAMBDA c : c \in FRMT_KEEP[base]), "0")
        w == [i \in 1..Len(v) |-> IF v[i] = "," THEN "." ELSE v[i]]
    IN  IF w # << >> /\ w[1] = "." THEN <<"0">> \o w ELSE w

\* lines 890-895: the number of places after the radix point, 0 unless
\* there is exactly one point
frc_places_of(val_str) ==
    LET dots == {i \in 1..Len(val_str) : val_str[i] = "."}
    IN  IF Cardinality(dots) = 1 THEN Len(val_str) - (CHOOSE i \in dots : TRUE) ELSE 0

\* line 897: val_str.replace('.', '')
raw_str_of(val_str) == SelectSeq(val_str, LAMBDA c : c # ".")

\* the float returned and the value handed to fixp (arg; none when the
\* routine returns before it calls fixp)
f2f_zero(q) == [q |-> q, y |-> 0, arg |-> << >>]

\* lines 967-970 and 985-988: an exception of fixp is swallowed and 0.0 returned
f2f_result(r, y_dec) == [q |-> r.q, y |-> IF r.exc THEN 0 ELSE r.yq[1], arg |-> <<y_dec>>]

\* line 967: y_float = self.fixp(y_dec, scaling='div')
f2f_fixp(q, y_dec, fmt) == f2f_result(fixp(q, <<y_dec>>, "div", fmt), y_dec)

\* lines 959-967: two's complement when y_dec fills all W bits, the sign, fixp
f2f_twos(q, y_dec, W, neg_sign, fmt) ==
    IF y_dec = 0 THEN f2f_zero(q)
    ELSE f2f_fixp(q, (IF neg_sign THEN -1 ELSE 1)
                     * (IF BitLen(y_dec \div D) = W THEN y_dec - Pow2(W) * D ELSE y_dec),
                  fmt)

\* lines 946-952: the bits above W are discarded from the string
discard_msbs(raw_str, int_bits, W, b) ==
    LET bits == IF b = 16 THEN binary_repr(py_int(raw_str, 16), 0) ELSE raw_str
    IN  SubSeq(bits, int_bits - W + 1, Len(bits))

\* line 937: int(raw_str, base) / base**frc_places is a float, the nearest
\* number with a mantissa of 53 bits
MantissaBits == 53

RECURSIVE hex_bits(_)
\* four binary digits for every hex digit
hex_bits(s) ==
    IF s = << >> THEN << >> ELSE binary_repr(DigitVal(Head(s)), 4) \o hex_bits(Tail(s))

\* the binary digits of int(raw_str, base), from the leading one on
raw_bits(raw_str, b) == lstrip(IF b = 16 THEN hex_bits(raw_str) ELSE raw_str, "0")

\* int(raw_str, base) does not raise ValueError
valid_digits(raw_str, b) ==
    raw_str # << >> /\ \A i \in 1..Len(raw_str) : DigitVal(raw_str[i]) \in 0..(b - 1)

\* line 937: a number of more than 53 bits whose leading 54 bits are ones is
\* rounded up to the next power of two by the division
rounds_to_power(bits) ==
    Len(bits) > MantissaBits /\ \A i \in 1..(MantissaBits + 1) : bits[i] = "1"

\* lines 937-967 for a string that the division rounds up to a power of two,
\* 2^k with k = the number of integer bits of the string: int_bits is k + 1,
\* one character too many is cut off, and int('', 2) raises the ValueError
\* that line 968 swallows
f2f_rounded(q, raw_str, frc_places, b, W, neg_sign, fmt) ==
    LET bits     == raw_bits(raw_str, b)
        k        == Len(bits) - frc_places * (IF b = 16 THEN 4 ELSE 1)
        int_bits == IF k + 1 > 0 THEN k + 1 ELSE 0
        str      == IF b = 16 THEN bits ELSE raw_str
        cut      == SubSeq(str, int_bits - W + 1, Len(str))
    IN  IF int_bits > W
        THEN IF cut = << >> THEN f2f_zero(q)
             ELSE f2f_twos(q, (py_int(cut, 2) * D) \div Pow(b, frc_places), W, neg_sign, fmt)
        ELSE f2f_twos(q, (py_int(raw_str, b) * D) \div Pow(b, frc_places), W, neg_sign, fmt)

\* lines 937-957 for a string that the division and np.log2 render exactly
\* (strings of up to 47 bits are; the model's strings are either shorter
\* than that or rounded up by the division)
f2f_exact(q, raw_str, frc_places, b, W, neg_sign, fmt) ==
    LET y_dec    == (py_int(raw_str, b) * D) \div Pow(b, frc_places)
        int_bits == BitLen(y_dec \div D)
    IN  IF py_int(raw_str, b) < 0 \/ y_dec = 0 THEN f2f_zero(q)
        ELSE IF int_bits > W
        THEN f2f_twos(q, (py_int(discard_msbs(raw_str, int_bits, W, b), 2) * D)
                             \div Pow(b, frc_places), W, neg_sign, fmt)
        ELSE f2f_twos(q, y_dec, W, neg_sign, fmt)

\* lines 937-957
f2f_range(q, raw_str, frc_places, b, W, neg_sign, fmt) ==
    IF valid_digits(raw_str, b) /\ rounds_to_power(raw_bits(raw_str, b))
    THEN f2f_rounded(q, raw_str, frc_places, b, W, neg_sign, fmt)
    ELSE f2f_exact(q, raw_str, frc_places, b, W, neg_sign, fmt)

\* lines 889-935 for a val_str that is not empty
f2f_split(q, val_str, base, fmt) ==
    f2f_range(q, lstrip(raw_str_of(val_str), "-"), frc_places_of(val_str),
              IF base = "hex" THEN 16 ELSE 2,
              IF fmt = "qint" THEN q.q_dict.WI + q.q_dict.WF + 1 ELSE q.q_dict.WI + 1,
              raw_str_of(val_str)[1] = "-", fmt)

\* lines 973-980 for a val_str that is not empty: csd2dec of the string
\* without the point, divided by 2**frc_places, then fixp
f2f_csd(q, val_str, fmt) ==
    f2f_fixp(q, (csd2dec(raw_str_of(val_str)) * D) \div Pow2(frc_places_of(val_str)), fmt)

\* frmt2float_scalar(y) for a string y: the object after the call, the float returned
frmt2float_scalar(q, s, base, fmt) ==
    IF val_str_of(s, base) = << >> THEN f2f_zero(q)
    ELSE IF base = "csd" THEN f2f_csd(q, val_str_of(s, base), fmt)
    ELSE f2f_split(q, val_str_of(s, base), base, fmt)

\* frmt2float(y) for a string y
frmt2float(q, s, base, fmt) == IF s = << >> THEN f2f_zero(q) ELSE frmt2float_scalar(q, s, base, fmt)

\* ------------------------------------------------------------------------
\* State
\* ------------------------------------------------------------------------
VARIABLES
    Q,        \* a Fixed instance
    qfrmt,    \* fb.fil[0]['qfrmt']
    call,     \* the last operation on Q: its arguments and what it returned
    tally,    \* history: what the fixp calls since the last resetN should have counted
    ba,       \* fb.fil[0]['ba']: the coefficients <<b, a>>
    F,        \* an IIR_DF1_pyfixp instance
    ret,      \* the last operation on F and what it returned
    acct,     \* history: the overflows fxfilter has seen since the last init / reset
    fx_base,  \* fb.fil[0]['fx_base']
    text      \* the string float2frmt has returned last

fixVars == <<Q, call, tally>>
filtVars == <<ba, F, ret, acct>>
codecVars == <<fx_base, text>>
vars == <<Q, qfrmt, call, tally, ba, F, ret, acct, fx_base, text>>

\* arr: the caller's array after a call that was given a numpy array
NoCall == [kind |-> "none", y |-> << >>, scaling |-> "mult", yq |-> << >>, exc |-> FALSE,
           dtype |-> "float", arr |-> << >>]

\* nothing counted yet; clean: every fixp call since the last resetN ran with
\* a known quant mode and with ovfl in {sat, wrap}
NoTally == [pos |-> 0, neg |-> 0, n |-> 0, clean |-> TRUE]

\* no filter has been constructed
NoFilter == ba = << >> /\ F = << >> /\ ret = << >> /\ acct = << >>

\* the codec is not used
NoCodec == fx_base = "dec" /\ text = << >>

\* the configurations a quantizer is constructed with
Configs ==
    [WI : 0..MaxWI, WF : 0..MaxWF, quant : QuantModes, ovfl : OvflModes]

\* ------------------------------------------------------------------------
\* SpecFixp: one quantizer, constructed with any configuration, quantizes a
\* scalar and then quantizes its own result once more
\* ------------------------------------------------------------------------
InitFixp ==
    /\ qfrmt \in NumFormats
    /\ \E c \in Configs : Q = Fixed(c, qfrmt)
    /\ call = NoCall
    /\ tally = NoTally
    /\ NoFilter /\ NoCodec

\* yq = Q.fixp(y, scaling) for a scalar y
FixpScalar ==
    /\ call.kind = "none"
    /\ \E y \in InputVals, sc \in Scalings :
         LET r == fixp(Q, <<y>>, sc, qfrmt)
         IN  /\ Q' = r.q
             /\ call' = [NoCall EXCEPT !.kind = "fixp", !.y = <<y>>, !.scaling = sc,
                                       !.yq = r.yq, !.exc = r.exc]
    /\ UNCHANGED <<qfrmt, tally, filtVars, codecVars>>

\* yqq = Q.fixp(yq) with the default scaling, yq being what the last call returned
FixpAgain ==
    /\ call.kind = "fixp"
    /\ call.scaling = "mult"
    /\ ~call.exc
    /\ LET r == fixp(Q, call.yq, "mult", qfrmt)
       IN  /\ Q' = r.q
           /\ call' = [NoCall EXCEPT !.kind = "again", !.y = call.yq, !.yq = r.yq,
                                     !.exc = r.exc]
    /\ UNCHANGED <<qfrmt, tally, filtVars, codecVars>>

NextFixp == FixpScalar \/ FixpAgain

SpecFixp == InitFixp /\ [][NextFixp]_vars

\* ------------------------------------------------------------------------
\* Input coercion of fixp. An input element is [kind, v]: a real number v
\* ("num"), a complex number with real part v and a non-zero imaginary part
\* ("cplx"), a string that float() parses to v ("str"), a string that
\* neither float() nor complex() parses ("bad"), or the empty string ("empty")
\* ------------------------------------------------------------------------
\* fixp, lines 655-679 and 682-686: the float a scalar input is quantized as
coerce(e) == IF e.kind \in {"bad", "empty"} THEN 0 ELSE e.v

\* Fixed.fixp(e) for a scalar e
fixp_scalar(q, e, scaling, fmt) == fixp(q, <<coerce(e)>>, scaling, fmt)

RECURSIVE fixp_map(_, _, _, _)
\* fixp, lines 650-651: list(map(lambda y_scalar: self.fixp(y_scalar,
\* scaling=scaling), y)): the elements are quantized one by one by the same
\* object
fixp_map(q, es, scaling, fmt) ==
    IF es = << >> THEN [q |-> q, yq |-> << >>, exc |-> FALSE]
    ELSE LET r == fixp_scalar(q, Head(es), scaling, fmt)
         IN  IF r.exc THEN r
             ELSE LET rest == fixp_map(r.q, Tail(es), scaling, fmt)
                  IN  [q |-> rest.q, yq |-> r.yq \o rest.yq, exc |-> rest.exc]

\* fixp, lines 648-652: the array of the elements' quantized values goes on
\* through scaling, requantization and overflow handling as the input y
fixp_requantize(r, scaling, fmt) ==
    IF r.exc THEN r ELSE fixp(r.q, r.yq, scaling, fmt)

\* np.asarray(y) of a list with a string in it is an array of strings
is_string_array(es) == \E i \in 1..Len(es) : es[i].kind \in {"str", "bad", "empty"}

\* y.astype(np.float64) raises ValueError: an element is no float literal
float_fails(es) == \E i \in 1..Len(es) : es[i].kind \in {"cplx", "bad", "empty"}

\* y.astype(complex) raises ValueError: an element is no complex literal
complex_fails(es) == \E i \in 1..Len(es) : es[i].kind \in {"bad", "empty"}

\* Fixed.fixp(es) for a list es of elements, lines 628-686: an array of
\* numbers and an array of strings that are all floats are quantized as the
\* array of their values; an array of strings with an element that is
\* neither a float nor a complex is converted element by element by fixp
\* itself. (Arrays of strings that are all complex literals, lines 643-646,
\* are not drawn as inputs.)
fixp_array(q, es, scaling, fmt) ==
    IF is_string_array(es) /\ float_fails(es) /\ complex_fails(es)
    THEN fixp_requantize(fixp_map(q, es, scaling, fmt), scaling, fmt)
    ELSE fixp(q, [i \in 1..Len(es) |-> coerce(es[i])], scaling, fmt)

\* fixp, lines 689-700: y = y * self.scale makes a new array, of floats if y
\* or the scale is one; the scale is the int 1 in Fractional format and the
\* float 2. ** WF in Integer format
scaled_copy(scaling) == scaling \in {"mult", "multdiv"}
scaled_dtype(dtype, scaling, fmt) ==
    IF scaled_copy(scaling) /\ fmt = "qint" THEN "float" ELSE dtype

\* fixp, line 700: y *= 2. ** WF multiplies in place, which numpy refuses
\* for an array of integers (the float result cannot be cast to the integer
\* type): the call raises, after N has been counted
inplace_fails(dtype, scaling, fmt) == scaled_dtype(dtype, scaling, fmt) = "int"

\* the caller's array v after fixp has returned or raised. With scaling
\* 'mult' or 'multdiv' fixp works on the copy. Else y *= 2. ** WF changes v
\* itself; with quant = 'none' yq is that same array and yq /= 2. ** WF
\* changes it back, every other known mode makes yq a new array, and an
\* unknown mode raises before the division.
array_after(q, v, dtype, scaling, fmt) ==
    IF scaled_copy(scaling) \/ inplace_fails(dtype, scaling, fmt) \/ q.q_dict.quant = "none"
    THEN v
    ELSE [i \in 1..Len(v) |-> v[i] * Pow2(q.q_dict.WF)]

\* Fixed.fixp(a) for a numpy array a = [dtype, v] of floats or of integers.
\* Result: the object after the call, the returned values, whether the
\* call raised, and the caller's array after the call.
fixp_ndarray(q, a, scaling, fmt) ==
    IF inplace_fails(a.dtype, scaling, fmt)
    THEN [q |-> [q EXCEPT !.N = @ + Len(a.v)], yq |-> << >>, exc |-> TRUE, arr |-> a.v]
    ELSE [q   |-> fixp(q, a.v, scaling, fmt).q,
          yq  |-> fixp(q, a.v, scaling, fmt).yq,
          exc |-> fixp(q, a.v, scaling, fmt).exc,
          arr |-> array_after(q, a.v, a.dtype, scaling, fmt)]

\* ------------------------------------------------------------------------
\* SpecCoerce: one quantizer, constructed with any configuration, quantizes
\* one list of numbers and strings or one numpy array
\* ------------------------------------------------------------------------
\* the values of the elements: inside and far below every range of the model
CoerceVals == {D \div 2, -(InMax * D)}
Elements ==
    [kind : {"num", "cplx", "str"}, v : CoerceVals]
        \cup {[kind |-> "bad", v |-> 0], [kind |-> "empty", v |-> 0]}
\* lists of one or two elements
Batches ==
    {es \in {<<e>> : e \in Elements} \cup {<<e1, e2>> : e1 \in Elements, e2 \in Elements} :
        ~(is_string_array(es) /\ float_fails(es) /\ ~complex_fails(es))}

InitCoerce ==
    /\ qfrmt \in NumFormats
    /\ \E c \in Configs : Q = Fixed(c, qfrmt)
    /\ call = NoCall
    /\ tally = NoTally
    /\ NoFilter /\ NoCodec

\* yq = Q.fixp(es, scaling) for a list es
FixpBatch ==
    /\ call.kind = "none"
    /\ \E es \in Batches, sc \in Scalings :
         \E r \in {fixp_array(Q, es, sc, qfrmt)} :
             /\ Q' = r.q
             /\ call' = [NoCall EXCEPT !.kind = "batch", !.y = es, !.scaling = sc,
                                       !.yq = r.yq, !.exc = r.exc]
    /\ UNCHANGED <<qfrmt, tally, filtVars, codecVars>>

\* numpy arrays of one or two floats, or of one or two integers
NdArrays ==
    {[dtype |-> "float", v |-> v] :
        v \in {<<a>> : a \in CoerceVals} \cup {<<a, b>> : a \in CoerceVals, b \in {InStep}}}
    \cup {[dtype |-> "int", v |-> v] : v \in {<<D>>, <<-(InMax * D), 0>>}}

\* yq = Q.fixp(a, scaling) for a numpy array a of the caller
FixpNdarray ==
    /\ call.kind = "none"
    /\ \E a \in NdArrays, sc \in Scalings :
         \E r \in {fixp_ndarray(Q, a, sc, qfrmt)} :
             /\ Q' = r.q
             /\ call' = [NoCall EXCEPT !.kind = "ndarray", !.y = a.v, !.scaling = sc,
                                       !.yq = r.yq, !.exc = r.exc,
                                       !.dtype = a.dtype, !.arr = r.arr]
    /\ UNCHANGED <<qfrmt, tally, filtVars, codecVars>>

NextCoerce == FixpBatch \/ FixpNdarray

SpecCoerce == InitCoerce /\ [][NextCoerce]_vars

\* ------------------------------------------------------------------------
\* SpecCount: the life of one quantizer: fixp on scalars and arrays, resetN
\* and partial set_qdict calls, in any order
\* ------------------------------------------------------------------------
MaxN == 2           \* fixp is called while N stays within MaxN

\* inputs far below, inside and far above every range of the model
CountVals == {-(InMax * D), -InStep, 0, InStep, InMax * D}
\* a scalar, an empty array, or an array of two elements
CountInputs == {<<a>> : a \in CountVals} \cup {<< >>}
                   \cup {<<a, b>> : a \in CountVals, b \in CountVals}

\* what a caller may put into q_dict['quant'] and q_dict['ovfl']
QuantValues == QuantModes \cup {"bad"}
OvflValues == OvflModes \cup {"bad"}

\* the partial dictionaries passed to set_qdict
PartialDicts ==
    {[WI |-> w] : w \in 0..MaxWI} \cup {[WF |-> f] : f \in 0..MaxWF}
        \cup {[quant |-> m] : m \in QuantValues} \cup {[ovfl |-> o] : o \in OvflValues}

RECURSIVE CountIf(_, _, _)
\* the number of elements of the sequence s that are above MAX (dir = 1)
\* or below MIN (dir = -1) of q
CountIf(q, s, dir) ==
    IF s = << >> THEN 0
    ELSE (IF (dir = 1 /\ Head(s) > q.MAX) \/ (dir = -1 /\ Head(s) < q.MIN) THEN 1 ELSE 0)
             + CountIf(q, Tail(s), dir)

\* the requantized values of the elements of y in a call fixp(y) of q
RequantizedOf(q, y, fmt) ==
    [i \in 1..Len(y) |-> requant(q.q_dict.quant, y[i] * scale_of(q, fmt), q.q_dict.WF)]

InitCount ==
    /\ qfrmt \in NumFormats
    /\ \E c \in Configs : Q = Fixed(c, qfrmt)
    /\ call = NoCall
    /\ tally = NoTally
    /\ NoFilter /\ NoCodec

\* Q.fixp(y), default scaling, y a scalar or an array
CountFixp ==
    \E y \in CountInputs :
        /\ Q.N + Len(y) <= MaxN
        /\ LET r  == fixp(Q, y, "mult", qfrmt)
               ok == Q.q_dict.quant \in QuantModes /\ Q.q_dict.ovfl \in {"sat", "wrap"}
               rq == RequantizedOf(Q, y, qfrmt)
           IN  /\ Q' = r.q
               /\ call' = [NoCall EXCEPT !.kind = "fixp", !.exc = r.exc]
               /\ tally' = IF ok
                           THEN [tally EXCEPT !.pos = @ + CountIf(Q, rq, 1),
                                              !.neg = @ + CountIf(Q, rq, -1),
                                              !.n = @ + Len(y)]
                           ELSE [NoTally EXCEPT !.clean = FALSE]
        /\ UNCHANGED <<qfrmt, filtVars, codecVars>>

\* Q.resetN()
CountResetN ==
    /\ Q' = resetN(Q)
    /\ call' = [NoCall EXCEPT !.kind = "resetN"]
    /\ tally' = NoTally
    /\ UNCHANGED <<qfrmt, filtVars, codecVars>>

\* Q.set_qdict(d) for a partial dictionary d
CountSetQdict ==
    \E d \in PartialDicts :
        /\ Q' = set_qdict(Q, d, qfrmt)
        /\ call' = [NoCall EXCEPT !.kind = "set_qdict"]
        /\ UNCHANGED <<qfrmt, tally, filtVars, codecVars>>

NextCount == CountFixp \/ CountResetN \/ CountSetQdict

SpecCount == InitCount /\ [][NextCount]_vars

\* ------------------------------------------------------------------------
\* SpecConfig: the configuration of one quantizer: set_qdict with any word
\* lengths, changes of fb.fil[0]['qfrmt'], fixp on a scalar and resetN, in
\* any order
\* ------------------------------------------------------------------------
\* the configurations the quantizer is constructed with
ConfigInits == [WI : 0..MaxWI, WF : 0..MaxWF, quant : {"round", "fix"}, ovfl : {"sat", "wrap"}]

\* the dictionaries passed to set_qdict: a word length, negative ones
\* included, a quantization or an overflow mode, or both word lengths
ConfigDicts ==
    {[WI |-> w] : w \in (-1)..MaxWI} \cup {[WF |-> f] : f \in (-1)..MaxWF}
        \cup {[quant |-> "floor"], [ovfl |-> "sat"], [WI |-> MaxWI, WF |-> -MaxWF]}

\* inputs below, inside and above the ranges
ConfigVals == {-(InMax * D), InStep, InMax * D}

InitConfig ==
    /\ qfrmt \in NumFormats
    /\ \E c \in ConfigInits : Q = Fixed(c, qfrmt)
    /\ call = NoCall
    /\ tally = NoTally
    /\ NoFilter /\ NoCodec

\* Q.set_qdict(d); call.y keeps d
ConfigSetQdict ==
    \E d \in ConfigDicts :
        /\ Q' = set_qdict(Q, d, qfrmt)
        /\ call' = [NoCall EXCEPT !.kind = "set_qdict", !.y = <<d>>]
        /\ UNCHANGED <<qfrmt, tally, filtVars, codecVars>>

\* fb.fil[0]['qfrmt'] is set to the other number format
ConfigSetFormat ==
    /\ qfrmt' \in NumFormats \ {qfrmt}
    /\ call' = [NoCall EXCEPT !.kind = "qfrmt"]
    /\ UNCHANGED <<Q, tally, filtVars, codecVars>>

\* yq = Q.fixp(y) for a scalar y, default scaling
ConfigFixp ==
    /\ Q.N < MaxN
    /\ \E y \in ConfigVals :
         \E r \in {fixp(Q, <<y>>, "mult", qfrmt)} :
             /\ Q' = r.q
             /\ call' = [NoCall EXCEPT !.kind = "fixp", !.y = <<y>>, !.yq = r.yq,
                                       !.exc = r.exc]
    /\ UNCHANGED <<qfrmt, tally, filtVars, codecVars>>

\* Q.resetN()
ConfigResetN ==
    /\ Q' = resetN(Q)
    /\ call' = [NoCall EXCEPT !.kind = "resetN"]
    /\ UNCHANGED <<qfrmt, tally, filtVars, codecVars>>

NextConfig == ConfigSetQdict \/ ConfigSetFormat \/ ConfigFixp \/ ConfigResetN

SpecConfig == InitConfig /\ [][NextConfig]_vars

\* ------------------------------------------------------------------------
\* quant_coeffs and class IIR_DF1_pyfixp
\* ------------------------------------------------------------------------
RECURSIVE CeilLog2(_)
\* int(np.ceil(np.log2(n))) for n >= 1
CeilLog2(n) == IF n <= 1 THEN 0 ELSE 1 + CeilLog2((n + 1) \div 2)

RECURSIVE Sum(_)
\* np.sum
Sum(s) == IF s = << >> THEN 0 ELSE Head(s) + Sum(Tail(s))

\* np.zeros(n)
Zeros(n) == [i \in 1..n |-> 0]

\* the product of two values
Times(u, v) == (u * v) \div D

\* quant_coeffs(coeffs, QObj, recursive): resetN, then fixp of the
\* coefficients; for recursive coefficients the first one is replaced by 1
quant_coeffs(coeffs, q, recursive, fmt) ==
    LET r == fixp(resetN(q), IF recursive THEN Tail(coeffs) ELSE coeffs, "mult", fmt)
    IN  [q |-> r.q, coeff_q |-> IF recursive THEN <<D>> \o r.yq ELSE r.yq]

\* IIR_DF1_pyfixp.reset without the reset of the accumulator's counters
iir_reset_keep_acc(f) ==
    [f EXCEPT !.Q_mul = resetN(@), !.Q_O = resetN(@),
              !.N_over_filt = 0,
              !.zi_a = Zeros(f.L - 1), !.zi_b = Zeros(f.L - 1)]

\* IIR_DF1_pyfixp.reset
iir_reset(f) ==
    [f EXCEPT !.Q_mul = resetN(@), !.Q_acc = resetN(@), !.Q_O = resetN(@),
              !.N_over_filt = 0,
              !.zi_a = Zeros(f.L - 1), !.zi_b = Zeros(f.L - 1)]

\* IIR_DF1_pyfixp.init(p) without initial register values; coef is fb.fil[0]['ba']
iir_init(f, p, coef, fmt) ==
    LET DW    == CeilLog2(Cardinality(DOMAIN p.QCB))
        q_mul == dict_update(p.QACC, [WI |-> p.QI.WI + p.QCB.WI + DW,
                                      WF |-> p.QI.WF + p.QCB.WF])
        ca    == quant_coeffs(coef[2], set_qdict(f.Q_a, p.QCA, fmt), TRUE, fmt)
        cb    == quant_coeffs(coef[1], set_qdict(f.Q_b, p.QCB, fmt), FALSE, fmt)
        len   == IF Len(cb.coeff_q) > Len(ca.coeff_q) THEN Len(cb.coeff_q) ELSE Len(ca.coeff_q)
    IN  iir_reset([f EXCEPT !.p = p,
                            !.Q_b = cb.q, !.Q_a = ca.q,
                            !.Q_mul = set_qdict(@, q_mul, fmt),
                            !.Q_acc = set_qdict(@, p.QACC, fmt),
                            !.Q_O = set_qdict(@, p.QO, fmt),
                            !.a_q = ca.coeff_q, !.b_q = cb.coeff_q, !.L = len])

\* an argument zi_b or zi_a: None (not given) or the array v
NoZi == [given |-> FALSE, v |-> << >>]

\* init lines 116-122 and fxfilter lines 177-193: the register for a given
\* zi: as it is, with zeros appended, or its first L-1 elements
seed_reg(zi, L) ==
    IF Len(zi) = L - 1 THEN zi
    ELSE IF Len(zi) < L - 1 THEN zi \o Zeros(L - 1 - Len(zi))
    ELSE SubSeq(zi, 1, L - 1)

\* init, lines 124-130: a zi_a of length L-1 is used as it is; for any other
\* length the warning's f-string evaluates len(self.L), which raises
\* TypeError before zi_a is assigned
init_zi_a(f, za) ==
    IF ~za.given THEN [f |-> f, exc |-> FALSE]
    ELSE IF Len(za.v) = f.L - 1 THEN [f |-> [f EXCEPT !.zi_a = za.v], exc |-> FALSE]
    ELSE [f |-> f, exc |-> TRUE]

\* init, lines 116-130, on the object f that init has configured and reset
init_zi(f, zb, za) ==
    init_zi_a(IF zb.given THEN [f EXCEPT !.zi_b = seed_reg(zb.v, f.L)] ELSE f, za)

\* IIR_DF1_pyfixp.init(p, zi_b, zi_a). Result: the object after the call and
\* whether it raised.
init(f, p, coef, zb, za, fmt) == init_zi(iir_init(f, p, coef, fmt), zb, za)

\* IIR_DF1_pyfixp.__init__(p): the quantizers are constructed on the
\* dictionaries of p, which Fixed.__init__ completes with the defaults
\* (Q_mul on a copy of p['QACC']); then init(p)
IIR_DF1_pyfixp(p, coef, fmt) ==
    LET Qb   == Fixed(p.QCB, fmt)
        Qa   == Fixed(p.QCA, fmt)
        Qmul == Fixed(p.QACC, fmt)
        Qacc == Fixed(p.QACC, fmt)
        QO   == Fixed(p.QO, fmt)
        pf   == [p EXCEPT !.QCB = Qb.q_dict, !.QCA = Qa.q_dict,
                          !.QACC = Qacc.q_dict, !.QO = QO.q_dict]
        f0   == [p |-> pf, Q_b |-> Qb, Q_a |-> Qa, Q_mul |-> Qmul, Q_acc |-> Qacc, Q_O |-> QO,
                 a_q |-> << >>, b_q |-> << >>, L |-> 1, N_over_filt |-> 0,
                 zi_a |-> << >>, zi_b |-> << >>]
    IN  iir_init(f0, pf, coef, fmt)

\* fxfilter, line 215: the products of the window zi_b[k:k+len(b_q)] with
\* b_q, quantized by Q_mul
fx_xb(f, k, fmt) ==
    fixp(f.Q_mul, [i \in 1..Len(f.b_q) |-> Times(f.zi_b[k + i], f.b_q[i])], "mult", fmt)

\* u * v of numpy for two one-dimensional arrays can be computed: the lengths
\* are equal or one of them is 1
np_broadcastable(u, v) == Len(u) = Len(v) \/ Len(u) = 1 \/ Len(v) = 1

\* u * v of numpy: elementwise, an array of length 1 being stretched to the
\* length of the other one (to the empty array if that one is empty)
np_multiply(u, v) ==
    IF Len(u) = Len(v) THEN [i \in 1..Len(u) |-> Times(u[i], v[i])]
    ELSE IF Len(u) = 1 THEN [i \in 1..Len(v) |-> Times(u[1], v[i])]
    ELSE [i \in 1..Len(u) |-> Times(u[i], v[1])]

\* fxfilter, line 220: the products zi_a * a_q[1:], quantized by Q_mul as
\* left by the call before (rb)
fx_xa(f, rb, fmt) ==
    fixp(rb.q, np_multiply(f.zi_a, Tail(f.a_q)), "mult", fmt)

\* fxfilter, line 220 with operands that cannot be broadcast: ValueError is
\* raised after Q_mul.fixp has quantized the products with b_q
fx_value_error(st, rb) ==
    [f |-> [st.f EXCEPT !.Q_mul = rb.q], y_q |-> st.y_q, exc |-> TRUE]

\* fxfilter, line 230: Q_acc.fixp(np.sum(xb_q) - np.sum(xa_q))
fx_acc(f, rb, ra, fmt) == fixp(f.Q_acc, <<Sum(rb.yq) - Sum(ra.yq)>>, "mult", fmt)

\* fxfilter, lines 230-234: y_q[k] is stored, zi_a is shifted right by one
\* and Q_O.fixp(y_q[k]) (ro) is inserted at its head. With an empty zi_a
\* (L = 1) the assignment zi_a[0] = ... raises IndexError after Q_O.fixp
\* has run.
fx_store(st, k, ra, racc, ro) ==
    [f   |-> [st.f EXCEPT !.Q_mul = ra.q, !.Q_acc = racc.q, !.Q_O = ro.q,
                          !.zi_a = [i \in 1..Len(@) |-> IF i = 1 THEN ro.yq[1] ELSE @[i - 1]]],
     y_q |-> [st.y_q EXCEPT ![k + 1] = racc.yq[1]],
     exc |-> Len(st.f.zi_a) = 0]

fx_step_o(st, k, ra, racc, fmt) == fx_store(st, k, ra, racc, fixp(st.f.Q_O, racc.yq, "mult", fmt))
fx_step_acc(st, k, rb, ra, fmt) == fx_step_o(st, k, ra, fx_acc(st.f, rb, ra, fmt), fmt)
fx_step_xa(st, k, rb, fmt) ==
    IF np_broadcastable(st.f.zi_a, Tail(st.f.a_q))
    THEN fx_step_acc(st, k, rb, fx_xa(st.f, rb, fmt), fmt)
    ELSE fx_value_error(st, rb)
\* fxfilter, one pass of the loop body for sample k
fx_step(st, k, fmt) == fx_step_xa(st, k, fx_xb(st.f, k, fmt), fmt)

RECURSIVE fx_loop(_, _, _, _)
\* fxfilter, the loop 'for k in range(len(x))' from k on; st = [f, y_q, exc]
fx_loop(st, k, n, fmt) ==
    IF k >= n \/ st.exc THEN st ELSE fx_loop(fx_step(st, k, fmt), k + 1, n, fmt)

\* zi_b[-(L-1):], which is all of zi_b for L = 1
last_regs(zi_b, L) ==
    IF L - 1 = 0 \/ L - 1 >= Len(zi_b) THEN zi_b
    ELSE SubSeq(zi_b, Len(zi_b) - (L - 1) + 1, Len(zi_b))

\* mutant of fx_fold: the overflows of Q_mul replace Q_acc.N_over
fx_fold_assign(g) ==
    [g EXCEPT !.zi_b = last_regs(g.zi_b, g.L),
              !.Q_acc = [@ EXCEPT !.N_over = g.Q_mul.N_over],
              !.Q_mul = resetN(@)]

\* fxfilter, lines 239-246: the registers are trimmed, the overflows of Q_mul
\* are added to Q_acc.N_over and Q_mul is reset
fx_fold(g) ==
    [g EXCEPT !.zi_b = last_regs(g.zi_b, g.L),
              !.Q_acc = [@ EXCEPT !.N_over = @ + g.Q_mul.N_over],
              !.Q_mul = resetN(@)]

\* fxfilter, line 248: what is returned, ro being Q_O.fixp(y_q[:len(x)])
fx_result(g, ro) ==
    [f |-> [g EXCEPT !.Q_O = ro.q], y |-> ro.yq, zi_b |-> g.zi_b, zi_a |-> g.zi_a, exc |-> FALSE]

fx_return(g, y_q, fmt) == fx_result(g, fixp(g.Q_O, y_q, "mult", fmt))

fx_finish(st, fmt) ==
    IF st.exc THEN [f |-> st.f, y |-> << >>, zi_b |-> << >>, zi_a |-> << >>, exc |-> TRUE]
    ELSE fx_return(fx_fold(st.f), st.y_q, fmt)

\* fxfilter, lines 196-234: x is appended to zi_b and the loop is run
fx_run(f, x, fmt) ==
    fx_loop([f |-> [f EXCEPT !.zi_b = @ \o x], y_q |-> Zeros(Len(x)), exc |-> FALSE],
            0, Len(x), fmt)

\* IIR_DF1_pyfixp.fxfilter(x) for an array x, registers from the last run.
\* Result: the object after the call, what is returned, whether it raised.
fxfilter(f, x, fmt) == fx_finish(fx_run(f, x, fmt), fmt)

\* fxfilter, lines 177-193: the registers are seeded with the given zi_b, zi_a
fx_seed(f, zb, za) ==
    [f EXCEPT !.zi_b = IF zb.given THEN seed_reg(zb.v, f.L) ELSE @,
              !.zi_a = IF za.given THEN seed_reg(za.v, f.L) ELSE @]

\* fxfilter, line 196: np.zeros(len(x)) raises TypeError for x = None and for
\* a scalar x, which have no len(); only the seeding has been done by then
fx_type_error(f) == [f |-> f, y |-> << >>, zi_b |-> << >>, zi_a |-> << >>, exc |-> TRUE]

\* IIR_DF1_pyfixp.fxfilter(x) for any argument x = [kind, v]: an array v, None
\* or the scalar v[1]
fx_call(f, x, fmt) ==
    IF x.kind = "array" THEN fxfilter(f, x.v, fmt) ELSE fx_type_error(f)

\* IIR_DF1_pyfixp.fxfilter(x, zi_b, zi_a)
fx_call_zi(f, x, zb, za, fmt) == fx_call(fx_seed(f, zb, za), x, fmt)

\* ------------------------------------------------------------------------
\* SpecFilter: one filter: construction, then init, reset and fxfilter in
\* any order
\* ------------------------------------------------------------------------
\* fxfilter is called while Q_O.N stays within 2 * MaxSamples and zi_b, which
\* a call that raises leaves untrimmed, within L - 1 + MaxSamples
MaxSamples == MaxN

\* input samples: zero, one, and values large enough to overflow the products
XVals == {-(Pow2(MaxWI + 4) * D), 0, D}
\* input blocks of zero, one or two samples
XBlocks == {<< >>} \cup {<<u>> : u \in XVals} \cup {<<u, v>> : u \in XVals, v \in XVals}

\* fb.fil[0]['ba']: <<b, a>> with len(b) = len(a), with a longer a and with
\* a longer b
CoeffSets ==
    { << <<D>>, <<D>> >>,
      << <<D, D \div 2>>, <<D, 0>> >>,
      << <<D \div 2, D \div 4>>, <<D, -(D \div 2)>> >>,
      << <<D>>, <<D, -(D \div 2)>> >>,
      << <<D, D \div 2>>, <<D>> >> }

\* quantizer dictionaries as a caller writes them: complete or partial
CoefDicts == {[WI |-> 0, WF |-> 1, quant |-> "round", ovfl |-> "sat"], [WI |-> 1, WF |-> 2]}
\* accumulator and output dictionaries: a narrow saturating accumulator with
\* an output of its number of integer bits, and a wider wrapping accumulator
\* with an output of one integer bit less, which its results can overflow
AccDicts == {[WI |-> 0, WF |-> 1, quant |-> "round", ovfl |-> "sat"],
             [WI |-> MaxWI + 1, WF |-> 1, quant |-> "round", ovfl |-> "wrap"]}
OutDict(acc) ==
    [WI |-> IF acc.WI > MaxWI THEN acc.WI - 1 ELSE acc.WI, WF |-> 1, quant |-> "floor", ovfl |-> "sat"]
FilterParams ==
    {[QCB |-> c, QCA |-> c, QACC |-> acc, QI |-> [WI |-> 0, WF |-> 1], QO |-> OutDict(acc)] :
        c \in CoefDicts, acc \in AccDicts}

\* the arguments x of fxfilter: arrays, None and scalars
XArgs ==
    {[kind |-> "array", v |-> x] : x \in XBlocks}
        \cup {[kind |-> "None", v |-> << >>]}
        \cup {[kind |-> "scalar", v |-> <<u>>] : u \in XVals}

\* the arrays given as zi_b or zi_a: shorter than, as long as and longer
\* than the registers
ZiSeeds == {<< >>, <<D>>, <<D, 0>>}
\* the arguments <<zi_b, zi_a>>: none given, or one of them
ZiArgs ==
    {<<NoZi, NoZi>>}
        \cup {<<[given |-> TRUE, v |-> z], NoZi>> : z \in ZiSeeds}
        \cup {<<NoZi, [given |-> TRUE, v |-> z]>> : z \in ZiSeeds}

NoRet == [kind |-> "new", arg |-> "array", x |-> << >>, zb |-> NoZi, za |-> NoZi,
          y |-> << >>, zi_b |-> << >>, zi_a |-> << >>, exc |-> FALSE]

\* no overflow seen yet; mul: the overflows of the products Q_mul.fixp has
\* counted in the fxfilter calls. ret_a: the array object self.zi_a is the one
\* the last returning fxfilter call handed to its caller; sup_a: it is, or is
\* a slice view of, an array the caller passed as zi_a. reset and init bind
\* self.zi_a to a new array.
NoAcct == [mul |-> 0, ret_a |-> FALSE, sup_a |-> FALSE]

\* fxfilter, lines 186-193: a given zi_a of length L-1 becomes self.zi_a
\* itself and a longer one is sliced (a view of the caller's array); a
\* shorter one is copied by np.concatenate
fx_shares_zi_a(za, L) == za.given /\ Len(za.v) >= L - 1

\* init, lines 124-130: only a zi_a of length L-1 becomes self.zi_a
init_shares_zi_a(za, L) == za.given /\ Len(za.v) = L - 1

\* fxfilter, lines 186-193 and 248: which of the caller's arrays self.zi_a is
\* after a call with the argument zi_a = za that raised (exc) or returned
fx_acct(a, za, L, exc) ==
    [a EXCEPT !.sup_a = IF za.given THEN fx_shares_zi_a(za, L) ELSE @,
              !.ret_a = IF ~exc THEN TRUE ELSE IF za.given THEN FALSE ELSE @]

InitFilter ==
    /\ qfrmt = "qfrac"
    /\ ba \in CoeffSets
    /\ \E p \in FilterParams : F = IIR_DF1_pyfixp(p, ba, qfrmt)
    /\ ret = NoRet
    /\ acct = NoAcct
    /\ Q = << >> /\ call = NoCall /\ tally = NoTally
    /\ NoCodec

\* F.fxfilter(x, zi_b, zi_a); the impulse response (x = None or a scalar) is
\* asked of a filter at rest: zero registers, no sample counted; registers
\* are seeded in calls with an empty block before the first sample of a run
FiltFxfilter ==
    \E x \in XArgs, z \in ZiArgs :
        /\ x.kind # "array" => F = iir_reset(F) /\ z = <<NoZi, NoZi>>
        /\ z # <<NoZi, NoZi>> => x.v = << >> /\ F.Q_O.N = 0
        /\ x.kind = "array" => F.Q_O.N + 2 * Len(x.v) <= 2 * MaxSamples
        /\ x.kind = "array" => Len(F.zi_b) + Len(x.v) <= F.L - 1 + MaxSamples
        /\ \E r \in {fx_call_zi(F, x, z[1], z[2], qfrmt)} :
               /\ F' = r.f
               /\ ret' = [kind |-> "fxfilter", arg |-> x.kind, x |-> x.v,
                          zb |-> z[1], za |-> z[2], y |-> r.y,
                          zi_b |-> r.zi_b, zi_a |-> r.zi_a, exc |-> r.exc]
        /\ acct' = IF x.kind = "array"
                   THEN [fx_acct(acct, z[2], F.L, ret'.exc)
                             EXCEPT !.mul = @ + fx_run(F, x.v, qfrmt).f.Q_mul.N_over
                                              - F.Q_mul.N_over]
                   ELSE fx_acct(acct, z[2], F.L, ret'.exc)
        /\ UNCHANGED <<qfrmt, ba, fixVars, codecVars>>

\* F.reset()
FiltReset ==
    /\ F' = iir_reset(F)
    /\ ret' = [NoRet EXCEPT !.kind = "reset"]
    /\ acct' = NoAcct
    /\ UNCHANGED <<qfrmt, ba, fixVars, codecVars>>

\* new coefficients in fb.fil[0]['ba'] and / or a new parameter dictionary,
\* then F.init(p); or F.init(F.p, zi_b, zi_a) with the coefficients and the
\* dictionary as they are
FiltInit ==
    \E c \in CoeffSets, p \in FilterParams \cup {F.p}, z \in ZiArgs :
        /\ z # <<NoZi, NoZi>> <=> p = F.p
        /\ p = F.p => c = ba
        /\ ba' = c
        /\ \E r \in {init(F, p, c, z[1], z[2], qfrmt)} :
               /\ F' = r.f
               /\ ret' = [NoRet EXCEPT !.kind = "init", !.zb = z[1], !.za = z[2],
                                       !.exc = r.exc]
        /\ acct' = [NoAcct EXCEPT !.sup_a = init_shares_zi_a(z[2], F'.L)]
        /\ UNCHANGED <<qfrmt, fixVars, codecVars>>

NextFilter == FiltFxfilter \/ FiltReset \/ FiltInit

SpecFilter == InitFilter /\ [][NextFilter]_vars

\* ------------------------------------------------------------------------
\* SpecCodec: one quantizer, constructed with any configuration, renders a
\* float as a binary, hex or CSD string and parses the string back
\* ------------------------------------------------------------------------
CodecBases == {"bin", "hex", "csd"}

\* word lengths: those of Configs, a WI that fills a hex digit with the sign
\* bit and a WF of one full hex digit
CodecConfigs ==
    [WI : 0..MaxWI \cup {3}, WF : 0..MaxWF \cup {4}, quant : QuantModes, ovfl : OvflModes]

\* the floats the quantizer q represents: k * 2^-WF for every integer k of
\* WI + WF + 1 bits (in 'qint' format these are the values whose product with
\* scale = 2^WF is an integer in [MIN, MAX])
GridValues(q) ==
    { k * (D \div Pow2(q.q_dict.WF)) :
        k \in (-Pow2(q.q_dict.WI + q.q_dict.WF))..(Pow2(q.q_dict.WI + q.q_dict.WF) - 1) }

\* the inputs of float2frmt: the grid values and, where overflows are
\* handled, the values next to the range and a value off the grid
CodecInputs(q) ==
    GridValues(q) \cup
    (IF q.q_dict.ovfl = "none" THEN {}
     ELSE { Pow2(q.q_dict.WI) * D, -(Pow2(q.q_dict.WI) * D) - D \div Pow2(q.q_dict.WF),
            D \div Pow2(q.q_dict.WF + 1) })

InitCodec ==
    /\ qfrmt \in NumFormats
    /\ fx_base \in CodecBases
    /\ \E c \in CodecConfigs : Q = Fixed(c, qfrmt)
    /\ call = NoCall /\ tally = NoTally /\ text = << >>
    /\ NoFilter

\* text = Q.float2frmt(y)
CodecFloat2Frmt ==
    /\ call.kind = "none"
    /\ \E y \in CodecInputs(Q) :
        \E r \in {float2frmt(Q, y, qfrmt, fx_base)} :
            /\ Q' = r.q
            /\ text' = r.str
            /\ call' = [NoCall EXCEPT !.kind = "float2frmt", !.y = <<y>>, !.exc = r.exc]
    /\ UNCHANGED <<qfrmt, fx_base, tally, filtVars>>

\* Q.frmt2float(text)
CodecFrmt2Float ==
    /\ call.kind = "float2frmt" /\ ~call.exc
    /\ \E r \in {frmt2float(Q, text, fx_base, qfrmt)} :
        /\ Q' = r.q
        /\ call' = [call EXCEPT !.kind = "frmt2float", !.scaling = "div", !.yq = <<r.y>>]
    /\ UNCHANGED <<qfrmt, fx_base, text, tally, filtVars>>

NextCodec == CodecFloat2Frmt \/ CodecFrmt2Float

SpecCodec == InitCodec /\ [][NextCodec]_vars

\* ------------------------------------------------------------------------
\* SpecParse: one quantizer parses a binary or hex string that was typed in:
\* unsigned, with or without fractional digits, of any number of bits
\* ------------------------------------------------------------------------
ParseBases == {"bin", "hex"}

ParseConfigs == [WI : 0..MaxWI \cup {3}, WF : 0..MaxWF, quant : {"floor"}, ovfl : {"wrap", "sat"}]

\* s with a radix point before its last frc digits
Pointed(s, frc) == SubSeq(s, 1, Len(s) - frc) \o <<".">> \o SubSeq(s, Len(s) - frc + 1, Len(s))

\* digit strings of 1..n digits out of the set digits
DigitStrings(digits, n) == UNION { [1..m -> digits] : m \in 1..n }

\* the strings typed in: every binary string of up to MaxWI + MaxWF + 2 digits
\* with up to two of them after the point, hex strings of up to two digits
\* with up to one of them after the point, and strings of ones of more bits
\* than a float holds
TypedStrings(base) ==
    IF base = "bin"
    THEN DigitStrings({"0", "1"}, MaxWI + MaxWF + 2)
         \cup { Pointed(s, frc) : s \in { t \in DigitStrings({"0", "1"}, MaxWI + MaxWF + 2) : Len(t) > 2 },
                                  frc \in 1..2 }
         \cup { Rep("1", MantissaBits + 1), Pointed(Rep("1", MantissaBits + 2), 1) }
    ELSE DigitStrings({"0", "1", "3", "8", "C", "F"}, 2)
         \cup { Pointed(s, 1) : s \in [1..2 -> {"0", "1", "3", "8", "C", "F"}] }
         \cup { Rep("F", 14), Pointed(Rep("F", 15), 1) }

InitParse ==
    /\ qfrmt \in NumFormats
    /\ fx_base \in ParseBases
    /\ \E c \in ParseConfigs : Q = Fixed(c, qfrmt)
    /\ call = NoCall /\ tally = NoTally /\ text = << >>
    /\ NoFilter

\* Q.frmt2float(s) for a typed string s; call.y is the value handed to fixp
ParseTyped ==
    /\ call.kind = "none"
    /\ \E s \in TypedStrings(fx_base) :
        \E r \in {frmt2float(Q, s, fx_base, qfrmt)} :
            /\ Q' = r.q
            /\ text' = s
            /\ call' = [NoCall EXCEPT !.kind = "frmt2float", !.scaling = "div",
                                      !.y = r.arg, !.yq = <<r.y>>]
    /\ UNCHANGED <<qfrmt, fx_base, tally, filtVars>>

NextParse == ParseTyped

SpecParse == InitParse /\ [][NextParse]_vars

\* ------------------------------------------------------------------------
\* Properties of one fixp call (SpecFixp)
\* ------------------------------------------------------------------------
InRange(q, v) == q.MIN <= v /\ v <= q.MAX

\* a first call that returned a value
Returned == call.kind = "fixp" /\ ~call.exc

\* the input after input scaling (step 2) and after requantization (step 3)
ScaledIn == IF call.scaling \in {"mult", "multdiv"}
            THEN call.y[1] * scale_of(Q, qfrmt) ELSE call.y[1]
Requantized == requant(Q.q_dict.quant, ScaledIn, Q.q_dict.WF)

\* the result is not divided by a scale factor other than 1 on the way out
UndividedOut == call.scaling \notin {"div", "multdiv"} \/ scale_of(Q, qfrmt) = 1

\* C1: with ovfl in {sat, wrap}, whatever WI, WF, quant mode, number format
\* and input, the value fixp returns lies in [MIN, MAX].
C1_RangeInvariant ==
    (Returned /\ Q.q_dict.ovfl \in {"sat", "wrap"}) => InRange(Q, call.yq[1])

\* C2: fixp(fixp(x)) = fixp(x) under the default scaling, for every
\* configuration and number format.
C2_Idempotent ==
    call.kind = "again" => call.yq = call.y

\* C3: with ovfl = wrap, a requantized value that is a multiple of LSB is
\* returned as the value of [MIN, MAX] congruent to it modulo 4 * MSB.
C3_WrapIsModulo ==
    (Returned /\ Q.q_dict.ovfl = "wrap" /\ UndividedOut /\ Requantized % Q.LSB = 0)
        => /\ InRange(Q, call.yq[1])
           /\ (call.yq[1] - Requantized) % (4 * Q.MSB) = 0

\* C4: with ovfl = sat, every input above MAX is returned as exactly MAX and
\* every input below MIN as exactly MIN, for every WI, WF, quant mode and
\* number format (the result not being divided by a scale other than 1).
C4_SaturationBoundary ==
    (Returned /\ Q.q_dict.ovfl = "sat" /\ UndividedOut)
        => /\ call.y[1] > Q.MAX => call.yq[1] = Q.MAX
           /\ call.y[1] < Q.MIN => call.yq[1] = Q.MIN

\* an input above MAX whose requantized value overflowed was clamped to MAX
C4_Witness ==
    /\ Returned /\ Q.q_dict.ovfl = "sat" /\ call.scaling = "mult"
    /\ Q.q_dict.quant = "floor" /\ qfrmt = "qint" /\ Q.q_dict.WF = 1
    /\ call.y[1] > Q.MAX /\ Requantized > Q.MAX
    /\ call.yq[1] = Q.MAX

\* m(a / b) for the quantization method m
round_to(m, a, b) ==
    CASE m = "floor" -> np_floor(a, b)
      [] m = "fix"   -> np_fix(a, b)
      [] m = "ceil"  -> np_ceil(a, b)
      [] OTHER       -> np_rint(a, b)

\* C5: for quant in {floor, round, fix, ceil, rint} and an input that does
\* not overflow, fixp returns LSB * quant(y / LSB), y being the input after
\* input scaling, in Fractional format and in Integer format (LSB = 1).
C5_MultipleOfLSB ==
    LET expected == Q.LSB * round_to(Q.q_dict.quant, ScaledIn, Q.LSB)
    IN  (/\ Returned /\ UndividedOut
         /\ Q.q_dict.quant \in {"floor", "round", "fix", "ceil", "rint"}
         /\ InRange(Q, expected) /\ InRange(Q, Requantized))
            => call.yq[1] = expected

\* ------------------------------------------------------------------------
\* Properties of the counters of one quantizer (SpecCount)
\* ------------------------------------------------------------------------

\* C6: from reset counters, as long as fixp runs with ovfl in {sat, wrap},
\* N_over_pos is the number of processed elements whose requantized value was
\* above MAX, N_over_neg the number below MIN, N_over their sum (mirrored in
\* q_dict['N_over']) and N the number of processed elements, accumulated over
\* all calls since the last resetN.
C6_OverflowCounting ==
    tally.clean =>
        /\ Q.N_over_pos = tally.pos
        /\ Q.N_over_neg = tally.neg
        /\ Q.N_over = tally.pos + tally.neg
        /\ Q.q_dict.N_over = Q.N_over
        /\ Q.N = tally.n

\* overflows of both signs have accumulated
C6_Witness ==
    /\ tally.clean /\ call.kind = "fixp"
    /\ Q.N = 2 /\ Q.N_over_pos = 1 /\ Q.N_over_neg = 1 /\ Q.N_over = 2

\* C8: without a resetN none of N_over, N_over_pos, N_over_neg and N ever
\* decreases, whatever the operation (fixp under any ovfl mode, set_qdict).
C8_CountersMonotonic ==
    [][call'.kind # "resetN" =>
          /\ Q'.N_over >= Q.N_over
          /\ Q'.N_over_pos >= Q.N_over_pos
          /\ Q'.N_over_neg >= Q.N_over_neg
          /\ Q'.N >= Q.N]_vars
\* ------------------------------------------------------------------------
\* Properties of the filter's quantizers (SpecFilter)
\* ------------------------------------------------------------------------
TotalIsSum(q) == q.N_over = q.N_over_pos + q.N_over_neg

\* C7 as stated: in every reachable state each of the five quantizers of the
\* filter has N_over = N_over_pos + N_over_neg.
C7_TotalIsSum == \A q \in {F.Q_b, F.Q_a, F.Q_mul, F.Q_acc, F.Q_O} : TotalIsSum(q)

\* C7, amended: N_over = N_over_pos + N_over_neg holds in every reachable state
\* for Q_b, Q_a, Q_mul and Q_O, and for Q_acc after construction, init and
\* reset; after fxfilter, Q_acc.N_over is at least N_over_pos + N_over_neg,
\* the surplus being the overflows of Q_mul that the call has added to it.
C7_TotalIsSumButAcc ==
    /\ \A q \in {F.Q_b, F.Q_a, F.Q_mul, F.Q_O} : TotalIsSum(q)
    /\ F.Q_acc.N_over >= F.Q_acc.N_over_pos + F.Q_acc.N_over_neg
    /\ ret.kind \in {"new", "init", "reset"} => TotalIsSum(F.Q_acc)

\* fxfilter has returned, the accumulator has overflowed and overflows of
\* the products have been added to its total
C7_Witness ==
    /\ ret.kind = "fxfilter" /\ ~ret.exc
    /\ F.Q_acc.N_over_pos + F.Q_acc.N_over_neg > 0
    /\ F.Q_acc.N_over > F.Q_acc.N_over_pos + F.Q_acc.N_over_neg

\* ------------------------------------------------------------------------
\* Properties of the codec (SpecCodec)
\* ------------------------------------------------------------------------
\* g is a float the quantizer q represents: g * scale is a multiple of LSB in
\* [MIN, MAX] (scale = 2^WF in 'qint' format, 1 in 'qfrac' format)
Representable(q, g) == (g * scale_of(q, qfrmt)) % q.LSB = 0 /\ InRange(q, g * scale_of(q, qfrmt))

\* frmt2float(float2frmt(g)) has been evaluated for a representable g under
\* ovfl = sat or wrap
RoundTripDone ==
    /\ call.kind = "frmt2float"
    /\ Q.q_dict.ovfl \in {"sat", "wrap"}
    /\ Representable(Q, call.y[1])

\* the binary digits of text, the radix point left out
TextDigits == SelectSeq(text, LAMBDA c : c # ".")

\* the value of the digits of text read as a two's-complement number
TwosValue ==
    py_int(TextDigits, 2) - (IF TextDigits[1] = "1" THEN Pow2(Len(TextDigits)) ELSE 0)

C10_HexRoundTrip == (fx_base = "hex" /\ RoundTripDone) => call.yq = call.y

\* a negative value has made the round trip through a hex string whose
\* integer side is padded with zeros, not with the sign bit, and whose
\* fractional side is padded as WF is not a multiple of 4
C10_Witness ==
    /\ fx_base = "hex" /\ RoundTripDone /\ qfrmt = "qfrac"
    /\ Q.q_dict.WI > 0 /\ Q.q_dict.WF % 4 # 0
    /\ call.y[1] < 0
    /\ DigitVal(text[1]) < 8
    /\ call.yq = call.y

\* no two adjacent digits of text are non-zero, the point left out
NoAdjacentNonZero ==
    \A i \in 1..(Len(TextDigits) - 1) : TextDigits[i] = "0" \/ TextDigits[i + 1] = "0"

\* C11: with base 'csd', for every representable value g the string of
\* float2frmt (dec2csd(g, WF) in 'qfrac' format, dec2csd(g * scale, 0) in 'qint'
\* format) is parsed back by frmt2float to exactly g, and the string has no
\* two adjacent non-zero digits.
C11_CsdRoundTrip ==
    (fx_base = "csd" /\ RoundTripDone) => call.yq = call.y /\ NoAdjacentNonZero

\* ------------------------------------------------------------------------
\* Properties of the filter (SpecFilter)
\* ------------------------------------------------------------------------
\* the coefficients are b = [1], a = [1], they are quantized to 1, and the
\* accumulator and output formats hold the value 1
IdentityFilter ==
    /\ ba = << <<D>>, <<D>> >> /\ F.b_q = <<D>> /\ F.a_q = <<D>>
    /\ F.Q_acc.MAX >= D /\ F.Q_O.MAX >= D

\* C12: with b = [1], a = [1] and formats that hold 1, an fxfilter call on a
\* block of zeros and ones (the impulse [1,0,...] and the zeros that follow
\* it) completes and returns the block.
C12_IdentityFilter ==
    (ret.kind = "fxfilter" /\ ret.arg = "array" /\ IdentityFilter /\ ret.x # << >>
        /\ \A i \in 1..Len(ret.x) : ret.x[i] \in {0, D})
    => ~ret.exc /\ ret.y = ret.x

\* fxfilter(x1) and then fxfilter(x2) return what one fxfilter(x1 ++ x2)
\* returns, r1 being the result of fxfilter(f, x1)
SameAsOneCall(f, x1, r1, x2) ==
    \E r2 \in {fxfilter(r1.f, x2, qfrmt)}, r12 \in {fxfilter(f, x1 \o x2, qfrmt)} :
        /\ ~r1.exc /\ ~r2.exc /\ ~r12.exc
        /\ r1.y \o r2.y = r12.y
        /\ r2.zi_b = r12.zi_b /\ r2.zi_a = r12.zi_a

\* C13: for any coefficient set and any blocks x1, x2, fxfilter(x1) followed
\* by fxfilter(x2) returns outputs whose concatenation is the output of one
\* fxfilter(x1 ++ x2) from the same registers, and ends with the same zi_b
\* and zi_a. Checked at every fxfilter(x1) step for every x2.
C13_Streaming ==
    [][(ret'.kind = "fxfilter" /\ ret'.arg = "array") =>
         \A x2 \in XBlocks :
            SameAsOneCall(F, ret'.x, [f |-> F', y |-> ret'.y, exc |-> ret'.exc], x2)]_vars

\* the same for the filters with L >= 2 only
C13_StreamingRegs ==
    [][(ret'.kind = "fxfilter" /\ ret'.arg = "array" /\ F.L >= 2) =>
         \A x2 \in XBlocks :
            SameAsOneCall(F, ret'.x, [f |-> F', y |-> ret'.y, exc |-> ret'.exc], x2)]_vars

\* C14: after every fxfilter call that returns, the counters of Q_mul are
\* all zero and Q_acc.N_over is the number of accumulator overflows plus the
\* number of product overflows of all fxfilter calls since the last init or
\* reset.
C14_CumulativeAccounting ==
    (ret.kind = "fxfilter" /\ ~ret.exc) =>
        /\ F.Q_mul.N = 0 /\ F.Q_mul.N_over = 0
        /\ F.Q_mul.N_over_pos = 0 /\ F.Q_mul.N_over_neg = 0
        /\ F.Q_acc.N_over = F.Q_acc.N_over_pos + F.Q_acc.N_over_neg + acct.mul

\* C15: after construction or init the product quantizer has
\* WI = WI(QI) + WI(QCB) + ceil(log2(number of taps)) and
\* WF = WF(QI) + WF(QCB).
C15_ProductWordGrowth ==
    ret.kind \in {"new", "init"} =>
        /\ F.Q_mul.q_dict.WI = F.p.QI.WI + F.p.QCB.WI + CeilLog2(Len(F.b_q))
        /\ F.Q_mul.q_dict.WF = F.p.QI.WF + F.p.QCB.WF

\* the counters of q are all zero
CountersZero(q) ==
    q.N = 0 /\ q.N_over = 0 /\ q.N_over_pos = 0 /\ q.N_over_neg = 0 /\ q.q_dict.N_over = 0

\* the counters of q hold the overflows of one quantization of coeffs
CountersOf(q, coeffs) ==
    /\ q.N = Len(coeffs)
    /\ q.N_over_pos = CountIf(q, RequantizedOf(q, coeffs, qfrmt), 1)
    /\ q.N_over_neg = CountIf(q, RequantizedOf(q, coeffs, qfrmt), -1)
    /\ q.N_over = q.N_over_pos + q.N_over_neg
    /\ q.q_dict.N_over = q.N_over

\* C16: after init, called in any state without register values, the
\* counters of Q_mul, Q_acc and Q_O are zero and zi_a and zi_b are zero
\* vectors of length L-1; the counters of Q_b and Q_a hold the overflows of
\* the coefficient quantization just performed; a_q[0] is 1 and has not
\* passed through Q_a.
C16_InitResetsRunState ==
    (ret.kind \in {"new", "init"} /\ ~ret.zb.given /\ ~ret.za.given) =>
        /\ CountersZero(F.Q_mul) /\ CountersZero(F.Q_acc) /\ CountersZero(F.Q_O)
        /\ F.L = (IF Len(ba[1]) > Len(ba[2]) THEN Len(ba[1]) ELSE Len(ba[2]))
        /\ F.zi_a = Zeros(F.L - 1) /\ F.zi_b = Zeros(F.L - 1)
        /\ CountersOf(F.Q_b, ba[1])
        /\ CountersOf(F.Q_a, Tail(ba[2]))
        /\ F.a_q[1] = D

\* init after a run that has counted overflows: a coefficient overflows in
\* Q_b, and 1 is not a value of Q_a
C16_Witness ==
    /\ ret.kind = "init" /\ ~ret.zb.given /\ ~ret.za.given
    /\ F.Q_b.N_over > 0 /\ F.Q_a.N > 0
    /\ F.Q_a.MAX < D /\ F.a_q[1] = D

\* C17: with len(b) # len(a) no fxfilter call on samples returns: it raises
\* (unless init has raised before).
C17_MismatchedLengthsRaise ==
    (Len(ba[1]) # Len(ba[2]) /\ ret.kind = "fxfilter" /\ ret.arg = "array" /\ ret.x # << >>)
        => ret.exc

\* an impulse of amplitude amp and of the length of the coefficients
Impulse(amp, L) == [i \in 1..L |-> IF i = 1 THEN amp ELSE 0]

\* C18: fxfilter with x = None returns the response to an impulse of amplitude
\* 1, fxfilter with a scalar x the response to an impulse of that amplitude;
\* neither call raises.
C18_ImpulseShortcut ==
    [][(ret'.kind = "fxfilter" /\ ret'.arg # "array") =>
          /\ ~ret'.exc
          /\ ret'.y = fxfilter(F, Impulse(IF ret'.arg = "None" THEN D ELSE ret'.x[1], F.L),
                               qfrmt).y]_vars

\* the register C19 asks for: the previous content if zi is not given, zi
\* followed by zeros if it is shorter than L-1, its leading L-1 elements else
SeededAs(zi, prev, L) ==
    IF ~zi.given THEN prev
    ELSE [i \in 1..(L - 1) |-> IF i <= Len(zi.v) THEN zi.v[i] ELSE 0]

\* C19: init and fxfilter with a zi_b or zi_a of any length do not raise in
\* the seeding, and go on from registers of length L-1 made of the given
\* array (padded with zeros or cut to its leading elements) where one is
\* given and of the previous content where none is.
C19_SeedingNeverFails ==
    [][/\ (ret'.kind = "init" /\ (ret'.zb.given \/ ret'.za.given)) =>
            /\ ~ret'.exc
            /\ F'.zi_b = SeededAs(ret'.zb, Zeros(F'.L - 1), F'.L)
            /\ F'.zi_a = SeededAs(ret'.za, Zeros(F'.L - 1), F'.L)
       /\ (ret'.kind = "fxfilter" /\ (ret'.zb.given \/ ret'.za.given)) =>
            /\ ~ret'.exc
            /\ F'.zi_b = SeededAs(ret'.zb, F.zi_b, F.L)
            /\ F'.zi_a = SeededAs(ret'.za, F.zi_a, F.L)
      ]_vars

\* C19 for fxfilter alone
C19_FxfilterSeeding ==
    [][(ret'.kind = "fxfilter" /\ (ret'.zb.given \/ ret'.za.given)) =>
            /\ ~ret'.exc
            /\ F'.zi_b = SeededAs(ret'.zb, F.zi_b, F.L)
            /\ F'.zi_a = SeededAs(ret'.za, F.zi_a, F.L)
      ]_vars

\* C20: a fixp call made while q_dict['quant'] or q_dict['ovfl'] is not a
\* recognized mode raises, and N, N_over, N_over_pos and N_over_neg are after
\* the call what they were before it.
C20_UnknownModeNoEffect ==
    [][(call'.kind = "fixp"
            /\ (Q.q_dict.quant \notin QuantModes \/ Q.q_dict.ovfl \notin OvflModes)) =>
          /\ call'.exc
          /\ Q'.N = Q.N /\ Q'.N_over = Q.N_over
          /\ Q'.N_over_pos = Q.N_over_pos /\ Q'.N_over_neg = Q.N_over_neg]_vars

\* the first half of C20: the call raises
C20_UnknownModeRaises ==
    [][(call'.kind = "fixp"
            /\ (Q.q_dict.quant \notin QuantModes \/ Q.q_dict.ovfl \notin OvflModes)) =>
          call'.exc]_vars

\* C21: fixp on a list mixing numbers, numeric strings, complex values and
\* unparsable strings does not raise and returns at each position what the
\* scalar call fixp gives for that element alone, in every format and
\* scaling mode.
C21_CoercionPerElement ==
    [][call'.kind = "batch" =>
          /\ ~call'.exc
          /\ Len(call'.yq) = Len(call'.y)
          /\ \A i \in 1..Len(call'.y) :
                call'.yq[i] = fixp_scalar(Q, call'.y[i], call'.scaling, qfrmt).yq[1]]_vars

\* C21 for the lists without an unparsable or empty string
C21_ParsableLists ==
    [][(call'.kind = "batch" /\ ~complex_fails(call'.y)) =>
          /\ ~call'.exc
          /\ Len(call'.yq) = Len(call'.y)
          /\ \A i \in 1..Len(call'.y) :
                call'.yq[i] = fixp_scalar(Q, call'.y[i], call'.scaling, qfrmt).yq[1]]_vars

\* C22: the word lengths of a quantizer are never negative, and after
\* set_qdict with a value for WI or WF the entry of q_dict is the absolute
\* value of what was passed.
C22_WordLengthsSanitized ==
    /\ Q.q_dict.WI >= 0 /\ Q.q_dict.WF >= 0
    /\ call.kind = "set_qdict" =>
          /\ "WI" \in DOMAIN call.y[1] => Q.q_dict.WI = Abs(call.y[1].WI)
          /\ "WF" \in DOMAIN call.y[1] => Q.q_dict.WF = Abs(call.y[1].WF)

\* C22 for WF alone
C22_FractionalBitsSanitized ==
    /\ Q.q_dict.WF >= 0
    /\ (call.kind = "set_qdict" /\ "WF" \in DOMAIN call.y[1]) =>
          Q.q_dict.WF = Abs(call.y[1].WF)

\* C23: at every fixp call, after any sequence of set_qdict calls and format
\* changes, LSB and MSB are those of the current WI, WF and number format,
\* MIN = -2 * MSB and MAX = 2 * MSB - LSB.
C23_LimitsTrackConfiguration ==
    call.kind = "fixp" =>
        /\ Q.LSB = LSB_of(Q.q_dict.WI, Q.q_dict.WF, qfrmt)
        /\ Q.MSB = MSB_of(Q.q_dict.WI, Q.q_dict.WF, qfrmt)
        /\ Q.MIN = -2 * Q.MSB
        /\ Q.MAX = 2 * Q.MSB - Q.LSB

\* the relations between the limits, which hold in every state
C23_LimitsConsistent ==
    /\ Q.MIN = -2 * Q.MSB
    /\ Q.MAX = 2 * Q.MSB - Q.LSB

\* the counters of q, apart from q_dict['N_over']
Counters(q) == <<q.N, q.N_over, q.N_over_pos, q.N_over_neg>>

\* the derived limits of q
Limits(q) == <<q.LSB, q.MSB, q.MIN, q.MAX>>

\* q2 is q1 after resetN: the counters are zero, nothing else has changed
ResetNFrame(q1, q2) ==
    /\ Counters(q2) = <<0, 0, 0, 0>> /\ q2.q_dict.N_over = 0
    /\ \A k \in DOMAIN q1.q_dict \ {"N_over"} : q2.q_dict[k] = q1.q_dict[k]
    /\ Limits(q2) = Limits(q1)

\* q2 is q1 after set_qdict(d): the keys of d have the values given (WF its
\* absolute value), the other keys and the counters have not changed, the
\* limits only if a word length was given
SetQdictFrame(q1, d, q2) ==
    /\ \A k \in DOMAIN d \ {"WF"} : q2.q_dict[k] = d[k]
    /\ "WF" \in DOMAIN d => q2.q_dict.WF = Abs(d.WF)
    /\ \A k \in DOMAIN q1.q_dict \ DOMAIN d : q2.q_dict[k] = q1.q_dict[k]
    /\ Counters(q2) = Counters(q1)
    /\ DOMAIN d \cap {"WI", "WF"} = {} => Limits(q2) = Limits(q1)

\* C24: resetN zeroes N_over_pos, N_over_neg, N_over, q_dict['N_over'] and N
\* and leaves the settings and the limits as they are; a partial set_qdict
\* changes only the given keys and the values derived from them.
C24_FrameEffects ==
    [][/\ call'.kind = "resetN" => ResetNFrame(Q, Q')
       /\ call'.kind = "set_qdict" => SetQdictFrame(Q, call'.y[1], Q')]_vars

\* the limits of Q are those of its word lengths and the number format
LimitsCurrent ==
    /\ Q.LSB = LSB_of(Q.q_dict.WI, Q.q_dict.WF, qfrmt)
    /\ Q.MSB = MSB_of(Q.q_dict.WI, Q.q_dict.WF, qfrmt)

\* C24 for resetN in any state and set_qdict in the states whose limits are
\* those of the number format
C24_FrameWhileLimitsCurrent ==
    [][/\ call'.kind = "resetN" => ResetNFrame(Q, Q')
       /\ (call'.kind = "set_qdict" /\ LimitsCurrent) => SetQdictFrame(Q, call'.y[1], Q')]_vars

\* the cases of C25: no quantization, no overflow handling, Fractional
\* format with the default scaling or any format with scaling 'multdiv'
Passthrough ==
    /\ call.kind = "ndarray"
    /\ Q.q_dict.quant = "none" /\ Q.q_dict.ovfl = "none"
    /\ (qfrmt = "qfrac" /\ call.scaling = "mult") \/ call.scaling = "multdiv"

\* C25: with quant = none and ovfl = none fixp returns every input value
\* unchanged and leaves the caller's input array unmodified.
C25_UnquantizedPassthrough ==
    Passthrough => ~call.exc /\ call.yq = call.y /\ call.arr = call.y

\* C25 for arrays of floats
C25_PassthroughOfFloats ==
    (Passthrough /\ call.dtype = "float") =>
        ~call.exc /\ call.yq = call.y /\ call.arr = call.y

\* the last n elements of s (all of s if it has fewer)
LastN(s, n) == IF n >= Len(s) THEN s ELSE SubSeq(s, Len(s) - n + 1, Len(s))

\* the first n elements of s (all of s if it has fewer)
FirstN(s, n) == IF n >= Len(s) THEN s ELSE SubSeq(s, 1, n)

Reverse(s) == [i \in 1..Len(s) |-> s[Len(s) + 1 - i]]

\* after a step the registers have length L-1; after fxfilter(x) zi_b holds
\* the most recent L-1 of the inputs (those in the register before, then x)
\* and zi_a the most recent L-1 of the outputs, newest first
RegistersAfter(f1, r, f2) ==
    /\ Len(f2.zi_a) = f2.L - 1 /\ Len(f2.zi_b) = f2.L - 1
    /\ (r.kind = "fxfilter" /\ r.arg = "array") =>
          /\ f2.zi_b = LastN(SeededAs(r.zb, f1.zi_b, f1.L) \o r.x, f1.L - 1)
          /\ f2.zi_a = FirstN(Reverse(r.y) \o SeededAs(r.za, f1.zi_a, f1.L), f1.L - 1)

\* C26: after any sequence of init, reset and fxfilter calls, for every
\* L >= 1 and input blocks of any length, len(zi_a) = len(zi_b) = L-1, zi_b
\* holds the most recent L-1 inputs and zi_a the most recent L-1 outputs,
\* newest first.
C26_RegisterLengths ==
    [][RegistersAfter(F, ret', F')]_vars

\* C26 for the filters with L >= 2
C26_RegistersTwoTaps ==
    [][F'.L >= 2 => RegistersAfter(F, ret', F')]_vars


\* ------------------------------------------------------------------------
\* C27: the registers a fxfilter call has returned, and the arrays passed in
\* for seeding, are arrays the caller holds. self.zi_b is only ever rebound
\* (lines 180-184, 208, 239), so no call writes into an array that was
\* returned or passed as zi_b. self.zi_a is written in place by the loop
\* (lines 230, 233): what it holds after a call is what the caller's array
\* holds, while that array is the register.
\* ------------------------------------------------------------------------
\* the register array during a call is an array of the caller
CallerHoldsZiA(a, za, L) == IF za.given THEN fx_shares_zi_a(za, L) ELSE a.ret_a \/ a.sup_a

\* what the caller's array held in its first L-1 places before the call
CallerZiABefore(f, za) == SeededAs(za, f.zi_a, f.L)

\* C27: no fxfilter call changes the contents of a zi_a array that an earlier
\* call returned or that the caller passed in for seeding (zi_b arrays are
\* never written to; reset and init bind new arrays)
C27_ReturnedRegistersAreSnapshots ==
    [][(ret'.kind = "fxfilter" /\ CallerHoldsZiA(acct, ret'.za, F.L))
          => F'.zi_a = CallerZiABefore(F, ret'.za)]_vars

\* ------------------------------------------------------------------------
\* C28: parsing a typed binary or hex string (SpecParse)
\* ------------------------------------------------------------------------
\* the word width the parser reduces to
ParseWidth == IF qfrmt = "qint" THEN Q.q_dict.WI + Q.q_dict.WF + 1 ELSE Q.q_dict.WI + 1

\* the binary digits of the typed string and how many of them follow the point
TypedBits == raw_bits(raw_str_of(val_str_of(text, fx_base)), IF fx_base = "hex" THEN 16 ELSE 2)
TypedFrcBits == frc_places_of(val_str_of(text, fx_base)) * (IF fx_base = "hex" THEN 4 ELSE 1)

\* the value of the string modulo 2^W: its last W integer bits and its
\* fractional bits
ModuloValue(bits, frc_bits, W) ==
    IF LastN(bits, W + frc_bits) = << >> THEN 0
    ELSE py_int(LastN(bits, W + frc_bits), 2) * (D \div Pow2(frc_bits))

\* read as W-bit two's complement: negative when bit W-1 is set
TwosComplement(m, W) == IF m >= Pow2(W - 1) * D THEN m - Pow2(W) * D ELSE m

\* the value frmt2float_scalar handed to the quantizer (0.0, which it returns
\* without the quantizer, counts as the value 0)
HandedToQuantizer == IF call.y = << >> THEN 0 ELSE call.y[1]

\* C28: every typed unsigned bin or hex string reaches the quantizer as its
\* value modulo 2^W, read as W-bit two's complement
C28_ParsingDiscardsMsbs ==
    call.kind = "frmt2float" =>
        HandedToQuantizer = TwosComplement(ModuloValue(TypedBits, TypedFrcBits, ParseWidth), ParseWidth)

\* C28 for the strings of no more bits than a float's mantissa holds
C28_WithinFloatPrecision ==
    (call.kind = "frmt2float" /\ Len(TypedBits) <= MantissaBits) =>
        HandedToQuantizer = TwosComplement(ModuloValue(TypedBits, TypedFrcBits, ParseWidth), ParseWidth)

\* ------------------------------------------------------------------------
\* C29: the order of the coefficients in the difference equation
\* ------------------------------------------------------------------------
\* q holds v exactly: v is a multiple of its LSB within its range
Holds(q, v) == v % q.LSB = 0 /\ v >= q.MIN /\ v <= q.MAX

\* the filter is at rest, its recursive coefficients after a[0] are zero, and
\* the product, accumulator and output formats hold every coefficient of b_q
WideAndNonRecursive(f) ==
    /\ f.zi_b = Zeros(f.L - 1) /\ f.zi_a = Zeros(f.L - 1)
    /\ \A j \in 2..Len(f.a_q) : f.a_q[j] = 0
    /\ \A i \in 1..Len(f.b_q) :
           Holds(f.Q_mul, f.b_q[i]) /\ Holds(f.Q_acc, f.b_q[i]) /\ Holds(f.Q_O, f.b_q[i])

\* C29: with formats in which nothing overflows or rounds, L >= 2 and
\* a = [1, 0, ..., 0], fxfilter answers the unit impulse with b_q[0], b_q[1],
\* ..., b_q[L-1] in that order
C29_ImpulseResponseOrder ==
    [][(ret'.kind = "fxfilter" /\ ret'.arg = "array" /\ ~ret'.zb.given /\ ~ret'.za.given
           /\ F.L >= 2 /\ Len(F.b_q) = F.L /\ WideAndNonRecursive(F)
           /\ ret'.x = Impulse(D, F.L))
          => ~ret'.exc /\ ret'.y = F.b_q]_vars

\* ------------------------------------------------------------------------
\* C30: the counters of the output quantizer after one fxfilter call
\* ------------------------------------------------------------------------
\* the number of the accumulator's results y_q that are outside the output
\* format of q once q has requantized them
OutputOverflows(q, y_q) ==
    CountIf(q, RequantizedOf(q, y_q, qfrmt), 1) + CountIf(q, RequantizedOf(q, y_q, qfrmt), -1)

\* C30: after one fxfilter call that started from reset counters, Q_O.N is the
\* number of samples of the block and Q_O.N_over the number of its output
\* samples that overflowed the output format
C30_OutputOverflowCountedOnce ==
    [][(ret'.kind = "fxfilter" /\ ret'.arg = "array" /\ ~ret'.exc /\ CountersZero(F.Q_O))
          => /\ F'.Q_O.N = Len(ret'.x)
             /\ F'.Q_O.N_over = OutputOverflows(F.Q_O, fx_run(fx_seed(F, ret'.zb, ret'.za),
                                                              ret'.x, qfrmt).y_q)]_vars

\* C30, the overflow counter alone
C30_OverflowsOfTheBlock ==
    [][(ret'.kind = "fxfilter" /\ ret'.arg = "array" /\ ~ret'.exc /\ CountersZero(F.Q_O))
          => F'.Q_O.N_over = OutputOverflows(F.Q_O, fx_run(fx_seed(F, ret'.zb, ret'.za),
                                                           ret'.x, qfrmt).y_q)]_vars
====
